---- MODULE Spec2Model ----
(***************************************************************************)
(* Model of src/main.py: the persona-driven document analyst.              *)
(*                                                                         *)
(* A Python str is a sequence of one-character strings.  A float score     *)
(* len(a)/len(b) is the pair <<len(a), len(b)>>, compared by cross         *)
(* multiplication (IEEE division of small integers is injective on the     *)
(* rationals involved, so float order and rational order agree).           *)
(***************************************************************************)
EXTENDS Integers, Sequences, FiniteSets, TLC

VARIABLES
    mode,                   \* which entry point the behaviour exercises
    pc,                     \* position inside that entry point
    text, keywords,         \* arguments of the pure helper under test
    max_length,             \* get_section_title_from_text's max_length
    ret, prev_ret,          \* value returned by the helper (and the one before)
    prev_text,              \* the helper's argument of the previous call
    persona, job,           \* PERSONA_DESCRIPTION / JOB_TO_BE_DONE
    lexicon_ok,             \* can nltk load stopwords / punkt?
    pdf_files,              \* the list comprehension of line 144
    idx,                    \* 1-based position of the for loop of line 150
    pdf,                    \* what pdfplumber sees in the current file
    pages_data,             \* local of intelligent_document_analyst
    all_extracted_content,  \* local of intelligent_document_analyst
    scored_content,         \* local of intelligent_document_analyst
    analysis_result,        \* local of the loop body (line 158)
    outputs,                \* OUTPUT_DIR: file name -> state of its .json
    stdout, stderr          \* what was printed, in order

vars == <<mode, pc, text, keywords, max_length, ret, prev_ret, prev_text,
          persona, job, lexicon_ok, pdf_files, idx, pdf, pages_data,
          all_extracted_content, scored_content, analysis_result,
          outputs, stdout, stderr>>

-----------------------------------------------------------------------------
(* Bounds of the model *)

MaxTextLen == 4
MaxTitleLen == 3
MaxPages == 2
MaxDocs == 2

-----------------------------------------------------------------------------
(* Characters and str methods *)

Whitespace == {" ", "\n", "\t"}
LowerAlnum == {"a", "b"}
UpperAlpha == {"A", "B"}

\* the alphabet texts are enumerated over
Chars == {"a", "B", "!", " ", "\n", "\t"}

\* None where a str, a float or a tuple may stand
None == "None"

\* None where a dict may stand
NoDict == [none |-> TRUE]

Range(s) == {s[i] : i \in 1..Len(s)}

Min(a, b) == IF a <= b THEN a ELSE b

\* s[:n]
Prefix(s, n) == SubSeq(s, 1, Min(n, Len(s)))

\* str.lower() on one character
lower_char(c) == IF c = "A" THEN "a" ELSE IF c = "B" THEN "b" ELSE c

\* str.lower()
lower(s) == [i \in 1..Len(s) |-> lower_char(s[i])]

\* str.isalnum(): non-empty and every character alphanumeric
isalnum(s) == Len(s) > 0 /\ \A i \in 1..Len(s) : s[i] \in LowerAlnum \cup UpperAlpha

\* str.lstrip()
RECURSIVE lstrip(_)
lstrip(s) == IF s # <<>> /\ Head(s) \in Whitespace THEN lstrip(Tail(s)) ELSE s

\* str.rstrip()
RECURSIVE rstrip(_)
rstrip(s) ==
    IF s # <<>> /\ s[Len(s)] \in Whitespace THEN rstrip(SubSeq(s, 1, Len(s) - 1)) ELSE s

\* str.strip()
strip(s) == rstrip(lstrip(s))

\* str.split('\n\n'): non-overlapping occurrences, scanned left to right;
\* cur is the piece being collected
RECURSIVE split_blank_lines(_, _)
split_blank_lines(s, cur) ==
    IF s = <<>> THEN <<cur>>
    ELSE IF Len(s) >= 2 /\ s[1] = "\n" /\ s[2] = "\n"
         THEN <<cur>> \o split_blank_lines(SubSeq(s, 3, Len(s)), <<>>)
         ELSE split_blank_lines(Tail(s), Append(cur, Head(s)))

\* str.split('\n')[0]
RECURSIVE first_line_of(_)
first_line_of(s) ==
    IF s = <<>> \/ Head(s) = "\n" THEN <<>> ELSE <<Head(s)>> \o first_line_of(Tail(s))

\* str.rsplit(' ', 1)[0]: what precedes the last U+0020, the whole string
\* when it holds none
rsplit_space_head(s) ==
    IF \E i \in 1..Len(s) : s[i] = " "
    THEN LET k == CHOOSE i \in 1..Len(s) :
                      s[i] = " " /\ \A j \in (i + 1)..Len(s) : s[j] # " "
         IN  SubSeq(s, 1, k - 1)
    ELSE s

-----------------------------------------------------------------------------
(* nltk *)

\* nltk.tokenize.word_tokenize on the model's alphabet: words are separated
\* by whitespace, and every "!" is a token of its own
RECURSIVE word_tokenize_from(_, _)
word_tokenize_from(s, cur) ==
    LET flush == IF cur = <<>> THEN <<>> ELSE <<cur>>
    IN  IF s = <<>> THEN flush
        ELSE IF Head(s) \in Whitespace THEN flush \o word_tokenize_from(Tail(s), <<>>)
        ELSE IF Head(s) = "!" THEN flush \o <<(<<"!">>)>> \o word_tokenize_from(Tail(s), <<>>)
        ELSE word_tokenize_from(Tail(s), Append(cur, Head(s)))

word_tokenize(s) == word_tokenize_from(s, <<>>)

\* stopwords.words('english') restricted to the words over the model's letters
stop_words == {<<"a">>}

-----------------------------------------------------------------------------
(* Helper functions of src/main.py *)

\* re.sub(r'[^a-z0-9\s]', '', text.lower())
preprocess_text(t) ==
    SelectSeq(lower(t), LAMBDA c : c \in LowerAlnum \cup Whitespace)

get_keywords(description) ==
    LET words == word_tokenize(lower(description))
    IN  {words[i] : i \in {j \in 1..Len(words) :
                              isalnum(words[j]) /\ words[j] \notin stop_words}}

\* 0.0
ZeroScore == <<0, 1>>

\* the numerator of line 55: len() of the set comprehension of line 54
unique_matched_in_block(text_words, kw) == Range(text_words) \cap kw

\* faulty variant: every matching occurrence counts, not every distinct match
MatchCount_occurrences(text_words, kw) ==
    Cardinality({i \in 1..Len(text_words) : text_words[i] \in kw})

MatchCount(text_words, kw) == Cardinality(unique_matched_in_block(text_words, kw))

\* faulty variant: divides by the number of distinct tokens
calculate_relevance_score_distinct_total(t, kw) ==
    IF t = <<>> \/ kw = {} THEN ZeroScore
    ELSE LET text_words == word_tokenize(preprocess_text(t))
         IN  IF text_words = <<>> THEN ZeroScore
             ELSE <<MatchCount(text_words, kw), Cardinality(Range(text_words))>>

calculate_relevance_score(t, kw) ==
    IF t = <<>> \/ kw = {} THEN ZeroScore
    ELSE LET text_words == word_tokenize(preprocess_text(t))
         IN  IF text_words = <<>> THEN ZeroScore
             ELSE <<MatchCount(text_words, kw), Len(text_words)>>

\* float comparisons
ScoreEq(x, y) == x[1] * y[2] = y[1] * x[2]
ScoreLeq(x, y) == x[1] * y[2] <= y[1] * x[2]
ScoreGt(x, y) == x[1] * y[2] > y[1] * x[2]

Ellipsis == <<".", ".", ".">>
UntitledSection == <<"Untitled Section">>
RelevantContent == <<"Relevant Content">>

\* faulty variant: cuts at max_length and never back to a space
TruncatedTitle_hard_cut(first_line, m) == Prefix(first_line, m) \o Ellipsis

\* first_line[:max_length].rsplit(' ', 1)[0] + "..."
TruncatedTitle(first_line, m) == rsplit_space_head(Prefix(first_line, m)) \o Ellipsis

get_section_title_from_text(t, m) ==
    IF t = <<>> THEN UntitledSection
    ELSE LET first_line == strip(first_line_of(strip(t)))
         IN  IF first_line # <<>>
             THEN IF Len(first_line) > m THEN TruncatedTitle(first_line, m)
                  ELSE first_line
             ELSE RelevantContent

-----------------------------------------------------------------------------
(* Inputs *)

\* every str of at most n characters over Chars
Texts(n) == UNION {[1..k -> Chars] : k \in 0..n}

\* keyword sets handed to calculate_relevance_score directly
KeywordPool == {<<"a">>, <<"b">>, <<"a", "b">>}

DefaultMaxLength == 100

\* values of max_length
MaxLengths == (0..MaxTitleLen) \cup {DefaultMaxLength}

\* the variables of the batch run, while a helper is exercised on its own
BatchIdle ==
    /\ persona = <<>> /\ job = <<>> /\ lexicon_ok = TRUE
    /\ pdf_files = <<>> /\ idx = 0 /\ pdf = NoDict
    /\ pages_data = <<>> /\ all_extracted_content = <<>> /\ scored_content = <<>>
    /\ analysis_result = NoDict
    /\ outputs = <<>> /\ stdout = <<>> /\ stderr = <<>>

batch_vars == <<persona, job, lexicon_ok, pdf_files, idx, pdf, pages_data,
                all_extracted_content, scored_content, analysis_result,
                outputs, stdout, stderr>>

-----------------------------------------------------------------------------
(* calculate_relevance_score on its own *)

ScoreInit ==
    /\ mode = "score" /\ pc = "call"
    /\ text \in Texts(MaxTextLen)
    /\ keywords \in SUBSET KeywordPool
    /\ max_length = DefaultMaxLength
    /\ ret = None /\ prev_ret = None /\ prev_text = None
    /\ BatchIdle

\* score = calculate_relevance_score(text, keywords)
CallScore ==
    /\ mode = "score" /\ pc = "call"
    /\ ret' = calculate_relevance_score(text, keywords)
    /\ pc' = "returned"
    /\ UNCHANGED <<mode, text, keywords, max_length, prev_ret, prev_text, batch_vars>>

\* seq with w inserted so that it becomes element k + 1
InsertAt(seq, k, w) == SubSeq(seq, 1, k) \o <<w>> \o SubSeq(seq, k + 1, Len(seq))

\* the text t with the word w put, between blanks, after its first p characters
WithCopy(t, p, w) == SubSeq(t, 1, p) \o <<" ">> \o w \o <<" ">> \o SubSeq(t, p + 1, Len(t))

\* the caller scores the text again after one more copy of a token that
\* already occurs in it and is a keyword was put into it
CallScoreWithCopy ==
    /\ mode = "score" /\ pc = "returned"
    /\ \E p \in 0..Len(text) :
         LET toks == word_tokenize(preprocess_text(text))
         IN  \E w \in unique_matched_in_block(toks, keywords) :
               LET t2 == WithCopy(text, p, w)
                   toks2 == word_tokenize(preprocess_text(t2))
               IN  /\ \E k \in 0..Len(toks) : toks2 = InsertAt(toks, k, w)
                   /\ text' = t2
                   /\ prev_text' = text
                   /\ prev_ret' = ret
                   /\ ret' = calculate_relevance_score(t2, keywords)
    /\ pc' = "rescored"
    /\ UNCHANGED <<mode, keywords, max_length, batch_vars>>

ScoreNext == CallScore \/ CallScoreWithCopy

ScoreSpec == ScoreInit /\ [][ScoreNext]_vars

-----------------------------------------------------------------------------
(* get_section_title_from_text on its own *)

TitleInit ==
    /\ mode = "title" /\ pc = "call"
    /\ text \in Texts(MaxTextLen)
    /\ keywords = {}
    /\ max_length \in MaxLengths
    /\ ret = None /\ prev_ret = None /\ prev_text = None
    /\ BatchIdle

\* title = get_section_title_from_text(text, max_length)
CallTitle ==
    /\ mode = "title" /\ pc = "call"
    /\ ret' = get_section_title_from_text(text, max_length)
    /\ pc' = "returned"
    /\ UNCHANGED <<mode, text, keywords, max_length, prev_ret, prev_text, batch_vars>>

TitleNext == CallTitle

TitleSpec == TitleInit /\ [][TitleNext]_vars

-----------------------------------------------------------------------------
(* intelligent_document_analyst *)

max_sections_to_output == 10

\* what pdfplumber makes of a file: it cannot be read (open or a page raises),
\* or it has pages, each with the str page.extract_text() returns; <<>> stands
\* for both None and "", which line 26 treats alike
Unreadable == [readable |-> FALSE, pages |-> <<>>]
Readable(pp) == [readable |-> TRUE, pages |-> pp]

\* lines 19-31: the pages kept, and whether the except branch reported
extract_text_from_pdf(d) ==
    IF d.readable
    THEN [pages_text |-> SelectSeq([i \in 1..Len(d.pages) |->
                                       [page_number |-> i, text |-> d.pages[i]]],
                                   LAMBDA pg : pg.text # <<>>),
          reported |-> FALSE]
    ELSE [pages_text |-> <<>>, reported |-> TRUE]

\* line 76: [p.strip() for p in text.split('\n\n') if p.strip()]
split_paragraphs(t) ==
    LET pieces == split_blank_lines(t, <<>>)
    IN  SelectSeq([i \in 1..Len(pieces) |-> strip(pieces[i])], LAMBDA q : q # <<>>)

\* lines 76-78
paragraphs_of(t) ==
    LET paragraphs == split_paragraphs(t)
    IN  IF paragraphs = <<>> THEN <<strip(t)>> ELSE paragraphs

\* faulty variant: the index is tested instead of the text
keep_paragraph_by_index(para_idx, paragraph_text) == para_idx # 0

\* line 81: if paragraph_text
keep_paragraph(para_idx, paragraph_text) == paragraph_text # <<>>

\* lines 80-87 for one page; para_idx counts from 0
units_of_page(doc_name, page_data) ==
    LET paragraphs == paragraphs_of(page_data.text)
        units == [i \in 1..Len(paragraphs) |->
                     [document |-> doc_name,
                      page_number |-> page_data.page_number,
                      text_content |-> paragraphs[i],
                      paragraph_index |-> i - 1]]
    IN  SelectSeq(units, LAMBDA u : keep_paragraph(u.paragraph_index, u.text_content))

\* lines 75-87
RECURSIVE segment(_, _)
segment(doc_name, pp) ==
    IF pp = <<>> THEN <<>>
    ELSE units_of_page(doc_name, Head(pp)) \o segment(doc_name, Tail(pp))

\* faulty variant: score >= 0
is_ranked_nonnegative(score) == ~ScoreGt(ZeroScore, score)

\* line 96: if score > 0
is_ranked(score) == ScoreGt(score, ZeroScore)

\* line 97: item['score'] = score
with_score(item, score) ==
    [document |-> item.document,
     page_number |-> item.page_number,
     text_content |-> item.text_content,
     paragraph_index |-> item.paragraph_index,
     score |-> score]

\* lines 94-97: the dicts of all_extracted_content after the scoring loop; a
\* unit that passes line 96 has gained the key 'score', the others have not
mark_scores(content, kw) ==
    [i \in 1..Len(content) |->
        LET score == calculate_relevance_score(content[i].text_content, kw)
        IN  IF is_ranked(score) THEN with_score(content[i], score) ELSE content[i]]

\* lines 93-98: scored_content holds, in order, the very dicts of
\* all_extracted_content that gained a score
score_content(marked) ==
    SelectSeq(marked, LAMBDA it : "score" \in DOMAIN it)

\* faulty variant: an unstable placement, in front of the items of equal score
RECURSIVE insert_sorted_before_ties(_, _)
insert_sorted_before_ties(seq, x) ==
    IF seq = <<>> THEN <<x>>
    ELSE IF ~ScoreGt(Head(seq).score, x.score) THEN <<x>> \o seq
    ELSE <<Head(seq)>> \o insert_sorted_before_ties(Tail(seq), x)

\* where list.sort(key=score, reverse=True) puts x among the already sorted
\* seq: behind every item whose score is not smaller (the sort is stable)
RECURSIVE insert_sorted(_, _)
insert_sorted(seq, x) ==
    IF seq = <<>> THEN <<x>>
    ELSE IF ScoreGt(x.score, Head(seq).score) THEN <<x>> \o seq
    ELSE <<Head(seq)>> \o insert_sorted(Tail(seq), x)

RECURSIVE sort_from(_, _)
sort_from(done, rest) ==
    IF rest = <<>> THEN done ELSE sort_from(insert_sorted(done, Head(rest)), Tail(rest))

\* line 100
sort_by_score_desc(seq) == sort_from(<<>>, seq)

\* faulty variant: the 0-based index itself
importance_rank_zero_based(i) == i

\* line 111, i being enumerate's 0-based index
importance_rank(i) == i + 1

\* scored_content[:max_sections_to_output]
selected(sorted) == Prefix(sorted, max_sections_to_output)

\* lines 106-112
output_sections_of(sorted) ==
    [k \in 1..Len(selected(sorted)) |->
        [document |-> sorted[k].document,
         page_number |-> sorted[k].page_number,
         section_title |-> get_section_title_from_text(sorted[k].text_content,
                                                       DefaultMaxLength),
         importance_rank |-> importance_rank(k - 1)]]

\* lines 113-117
output_sub_sections_of(sorted) ==
    [k \in 1..Len(selected(sorted)) |->
        [document |-> sorted[k].document,
         page_number |-> sorted[k].page_number,
         refined_text |-> sorted[k].text_content]]

\* lines 41-42: stopwords.words and word_tokenize raise LookupError when the
\* nltk data is not installed
get_keywords_raises(lex) == ~lex

\* lines 70-128 on the file d, when get_keywords does not raise: the locals the
\* frame ends with, and the returned dict.  The timestamp of the metadata is
\* left out.
intelligent_document_analyst(doc_name, persona_description, job_to_be_done, d) ==
    LET extracted == extract_text_from_pdf(d)
        content == segment(doc_name, extracted.pages_text)
        combined_keywords == get_keywords(persona_description)
                                 \cup get_keywords(job_to_be_done)
        marked == mark_scores(content, combined_keywords)
        sorted == sort_by_score_desc(score_content(marked))
    IN  [reported |-> extracted.reported,
         pages_data |-> extracted.pages_text,
         all_extracted_content |-> marked,
         scored_content |-> sorted,
         result |-> [metadata |-> [input_document |-> doc_name,
                                   persona |-> persona_description,
                                   job_to_be_done |-> job_to_be_done],
                     extracted_sections |-> output_sections_of(sorted),
                     sub_section_analysis |-> output_sub_sections_of(sorted)]]

-----------------------------------------------------------------------------
(* Inputs of the batch run *)

\* "b a\n\nB!\n\na b a\n\nb b\n\nab b\n\nb"
PageA == <<"b", " ", "a", "\n", "\n", "B", "!", "\n", "\n", "a", " ", "b",
           " ", "a", "\n", "\n", "b", " ", "b", "\n", "\n", "a", "b", " ",
           "b", "\n", "\n", "b">>
\* " ab b\n\n\n\nb\n\na\tb\n\nb! a \n\na\n\nab\nb"
PageB == <<" ", "a", "b", " ", "b", "\n", "\n", "\n", "\n", "b", "\n", "\n",
           "a", "\t", "b", "\n", "\n", "b", "!", " ", "a", " ", "\n", "\n",
           "a", "\n", "\n", "a", "b", "\n", "b">>
\* "a\nab": one paragraph of two lines
PageC == <<"a", "\n", "a", "b">>
\* " \n\n\t": nothing but whitespace
PageW == <<" ", "\n", "\n", "\t">>
\* extract_text() gave None or ""
PageNone == <<>>

PagePool == {PageA, PageB, PageC, PageW, PageNone}

PdfPool == {Unreadable} \cup {Readable(pp) : pp \in UNION {[1..n -> PagePool] : n \in 0..MaxPages}}

\* "" and "a B!"
PersonaPool == {<<>>, <<"a", " ", "B", "!">>}
\* "" and "ab!"
JobPool == {<<>>, <<"a", "b", "!">>}

\* the *.pdf names os.listdir can give; the name n stands for "n.pdf" and for
\* its output "n.json"
FileNames == 1..MaxDocs

Init ==
    /\ mode = "batch" /\ pc = "start"
    /\ text = <<>> /\ keywords = {} /\ max_length = DefaultMaxLength
    /\ ret = None /\ prev_ret = None /\ prev_text = None
    /\ persona \in PersonaPool
    /\ job \in JobPool
    /\ lexicon_ok \in BOOLEAN
    /\ \E n \in 0..MaxDocs : pdf_files = [i \in 1..n |-> i]
    /\ idx = 0
    /\ pdf = NoDict
    /\ pages_data = <<>> /\ all_extracted_content = <<>> /\ scored_content = <<>>
    /\ analysis_result = NoDict
    /\ outputs = [f \in FileNames |-> "absent"]
    /\ stdout = <<>> /\ stderr = <<>>

helper_vars == <<mode, text, keywords, max_length, ret, prev_ret, prev_text>>
input_vars == <<persona, job, lexicon_ok, pdf_files>>
frame_vars == <<pdf, pages_data, all_extracted_content, scored_content>>

-----------------------------------------------------------------------------
(* The container execution block, lines 132-167 *)

\* faulty variant: the exception ends the loop
after_exception_abort(i, n) == n + 1

\* the position of the for loop after the except branch of lines 164-165 has
\* handled an exception raised for the file at position i of n files
after_exception(i, n) == i + 1

\* lines 133-140: the three lines every run prints first
banner(persona_description, job_to_be_done) ==
    << <<"Container started">>,
       <<"Using Persona", persona_description>>,
       <<"Using Job To Be Done", job_to_be_done>> >>

\* lines 133-148: the banner is printed; then os.makedirs or os.listdir may
\* raise, which nothing catches and which ends the script with a traceback;
\* else nothing to do exits with status 0, or the loop starts
Startup ==
    /\ mode = "batch" /\ pc = "start"
    /\ \E fs \in {"ok", "raises"} :
         IF fs = "raises"
         THEN /\ pc' = "crashed"
              /\ stdout' = stdout \o banner(persona, job)
              /\ stderr' = Append(stderr, <<"Traceback", "OSError">>)
              /\ idx' = idx
         ELSE IF pdf_files = <<>>
         THEN /\ pc' = "exited"
              /\ stdout' = stdout \o banner(persona, job) \o <<(<<"No PDF files found">>)>>
              /\ stderr' = stderr
              /\ idx' = idx
         ELSE /\ pc' = "loop"
              /\ stdout' = stdout \o banner(persona, job)
              /\ stderr' = stderr
              /\ idx' = 1
    /\ UNCHANGED <<helper_vars, input_vars, frame_vars, analysis_result, outputs>>

\* lines 150-158 (and 164-165 when the call raises): the next file is
\* announced and analysed.  The call extracts and segments the file (lines
\* 73-87) and then asks for the keywords (line 89): without the nltk data that
\* raises, the frame is unwound and nothing of it is left.  When the call
\* returns, the locals its frame ended with stay visible until the loop body
\* ends.
Analyse ==
    /\ mode = "batch" /\ pc = "loop" /\ idx <= Len(pdf_files)
    /\ \E d \in PdfPool :
         LET filename == pdf_files[idx]
             r == intelligent_document_analyst(filename, persona, job, d)
             report(flag) == IF flag THEN <<(<<"Error processing PDF", filename>>)>>
                             ELSE <<>>
         IN  /\ stdout' = Append(stdout, <<"Processing", filename>>)
             /\ IF get_keywords_raises(lexicon_ok)
                THEN /\ stderr' = stderr \o report(extract_text_from_pdf(d).reported)
                                      \o <<(<<"Failed to process", filename, "LookupError">>)>>
                     /\ idx' = after_exception(idx, Len(pdf_files))
                     /\ pc' = "loop"
                     /\ pdf' = NoDict
                     /\ pages_data' = <<>>
                     /\ all_extracted_content' = <<>>
                     /\ scored_content' = <<>>
                     /\ analysis_result' = NoDict
                ELSE /\ pdf' = d
                     /\ stderr' = stderr \o report(r.reported)
                     /\ idx' = idx
                     /\ pc' = "dump"
                     /\ pages_data' = r.pages_data
                     /\ all_extracted_content' = r.all_extracted_content
                     /\ scored_content' = r.scored_content
                     /\ analysis_result' = r.result
    /\ UNCHANGED <<helper_vars, input_vars, outputs>>

\* lines 160-165: the result is written, or the sink raises: open() before the
\* file exists, or json.dump after it was created; the message of line 165
\* carries the exception.  The frame of the call is gone and analysis_result
\* is not read again.
Persist ==
    /\ mode = "batch" /\ pc = "dump"
    /\ LET filename == pdf_files[idx]
       IN  \E sink \in {"ok", "open raises", "dump raises"} :
             /\ outputs' = [outputs EXCEPT ![filename] =
                               CASE sink = "ok" -> "written"
                                 [] sink = "open raises" -> @
                                 [] sink = "dump raises" -> "partial"]
             /\ IF sink = "ok"
                THEN /\ stdout' = Append(stdout, <<"Successfully generated", filename>>)
                     /\ stderr' = stderr
                     /\ idx' = idx + 1
                ELSE /\ stdout' = stdout
                     /\ stderr' = Append(stderr, <<"Failed to process", filename, "OSError">>)
                     /\ idx' = after_exception(idx, Len(pdf_files))
    /\ pc' = "loop"
    /\ pdf' = NoDict
    /\ pages_data' = <<>> /\ all_extracted_content' = <<>> /\ scored_content' = <<>>
    /\ analysis_result' = NoDict
    /\ UNCHANGED <<helper_vars, input_vars>>

\* line 167
Finish ==
    /\ mode = "batch" /\ pc = "loop" /\ idx > Len(pdf_files)
    /\ pc' = "done"
    /\ stdout' = Append(stdout, <<"All files processed">>)
    /\ UNCHANGED <<helper_vars, input_vars, frame_vars, analysis_result, outputs,
                   stderr, idx>>

Next == Startup \/ Analyse \/ Persist \/ Finish

Spec == Init /\ [][Next]_vars

\* the interpreter runs the script to its end: no statement waits
FairSpec == Spec /\ WF_vars(Next)

-----------------------------------------------------------------------------
(* Properties of calculate_relevance_score (ScoreSpec) *)

NormalizedTokens(t) == word_tokenize(preprocess_text(t))

\* C1: calculate_relevance_score(T, K) is 0.0 when K is empty or T normalizes
\* to zero tokens, and otherwise is the number of distinct normalized tokens of
\* T that are members of K divided by the number of normalized tokens of T,
\* repeats included.
C1_ScoreIsDistinctMatchesOverTokens ==
    (mode = "score" /\ pc = "returned") =>
        LET toks == NormalizedTokens(text)
            distinct == {w \in keywords : \E i \in 1..Len(toks) : toks[i] = w}
        IN  IF keywords = {} \/ Len(toks) = 0
            THEN ret = ZeroScore
            ELSE ret = <<Cardinality(distinct), Len(toks)>>

\* a text with a repeated keyword has been scored: one distinct match, two tokens
C1_Witness ==
    /\ mode = "score" /\ pc = "returned"
    /\ NormalizedTokens(text) = <<(<<"b">>), (<<"b">>)>>
    /\ <<"b">> \in keywords
    /\ ret = <<1, 2>>

\* C5: putting one more copy of a token that already occurs in T and is a
\* member of K into T does not raise the score: the numerator (distinct
\* matches) stays and the denominator (all tokens) grows by one.
C5_RepetitionDoesNotRaiseScore ==
    (mode = "score" /\ pc = "rescored") =>
        /\ ScoreLeq(ret, prev_ret)
        /\ ret[1] = prev_ret[1]
        /\ ret[2] = prev_ret[2] + 1

\* a matching token was duplicated in a text that also holds another token,
\* and the score went down
C5_Witness ==
    /\ mode = "score" /\ pc = "rescored"
    /\ \E i \in 1..Len(NormalizedTokens(prev_text)) :
           NormalizedTokens(prev_text)[i] \notin keywords
    /\ Len(NormalizedTokens(text)) = Len(NormalizedTokens(prev_text)) + 1
    /\ ScoreGt(prev_ret, ret)

-----------------------------------------------------------------------------
(* Properties of get_section_title_from_text (TitleSpec) *)

\* the first line of the trimmed text, trimmed
TrimmedFirstLine(t) == strip(first_line_of(strip(t)))

HasSpace(s) == \E i \in 1..Len(s) : s[i] = " "
HasWhitespace(s) == \E i \in 1..Len(s) : s[i] \in Whitespace

\* s cut back to its last whitespace character of any kind (s itself when it
\* holds none)
CutAtLastWhitespace(s) ==
    IF HasWhitespace(s)
    THEN LET k == CHOOSE i \in 1..Len(s) :
                      s[i] \in Whitespace /\ \A j \in (i + 1)..Len(s) : s[j] \notin Whitespace
         IN  SubSeq(s, 1, k - 1)
    ELSE s

\* C6 as stated: a trimmed first line of at most M characters is returned
\* verbatim; a longer one is cut to M characters, cut back to the last
\* whitespace boundary inside that prefix, and "..." is appended; an
\* all-whitespace first line yields the placeholder title.
C6_TitleCutAtLastWhitespace ==
    (mode = "title" /\ pc = "returned") =>
        LET fl == TrimmedFirstLine(text)
        IN  /\ (fl # <<>> /\ Len(fl) <= max_length) => ret = fl
            /\ Len(fl) > max_length =>
                   ret = CutAtLastWhitespace(Prefix(fl, max_length)) \o Ellipsis
            /\ fl = <<>> => ret \in {RelevantContent, UntitledSection}

\* C6 amended: a trimmed first line of at most M characters is returned
\* verbatim; a longer one is cut to its first M characters, cut back to just
\* before the last space character (U+0020) of that prefix - other whitespace
\* such as a tab is no boundary, and a prefix without a space is kept whole -
\* and "..." is appended; a text of nothing but whitespace yields "Relevant
\* Content", the empty text "Untitled Section".
C6_TitleCutAtLastSpace ==
    (mode = "title" /\ pc = "returned") =>
        LET fl == TrimmedFirstLine(text)
            head == Prefix(fl, max_length)
        IN  /\ (fl # <<>> /\ Len(fl) <= max_length) => ret = fl
            /\ Len(fl) > max_length =>
                   \E k \in 0..Len(head) :
                       /\ ret = SubSeq(head, 1, k) \o Ellipsis
                       /\ IF HasSpace(head)
                          THEN /\ k < Len(head)
                               /\ head[k + 1] = " "
                               /\ ~HasSpace(SubSeq(head, k + 2, Len(head)))
                          ELSE k = Len(head)
            /\ (fl = <<>> /\ text # <<>>) => ret = RelevantContent
            /\ text = <<>> => ret = UntitledSection

\* a first line longer than M whose prefix holds a space and, behind it, a tab
\* has been titled: the cut is at the space
C6_Witness ==
    /\ mode = "title" /\ pc = "returned"
    /\ text = <<"a", " ", "\t", "B">>
    /\ max_length = 3
    /\ ret = <<"a">> \o Ellipsis

-----------------------------------------------------------------------------
(* Properties of intelligent_document_analyst (Spec) *)

\* the call of line 158 has returned for the current file
Returned == mode = "batch" /\ pc = "dump"

\* the content units segmented from the page numbered n
UnitsOfPageNumber(n) ==
    {i \in 1..Len(all_extracted_content) : all_extracted_content[i].page_number = n}

\* C2 as stated: every page handed to the pipeline whose raw text is a
\* non-empty string, text of nothing but whitespace or blank lines included,
\* gets at least one content unit appended by the segmentation loop.
C2_EveryNonEmptyPageYieldsAUnit ==
    Returned =>
        \A k \in 1..Len(pages_data) :
            pages_data[k].text # <<>> => UnitsOfPageNumber(pages_data[k].page_number) # {}

\* C2 amended: every page handed to the pipeline whose raw text holds at least
\* one non-whitespace character gets at least one content unit appended by the
\* segmentation loop (a page of nothing but whitespace gets none).
C2_EveryPageWithContentYieldsAUnit ==
    Returned =>
        \A k \in 1..Len(pages_data) :
            /\ (\E j \in 1..Len(pages_data[k].text) : pages_data[k].text[j] \notin Whitespace)
                   => UnitsOfPageNumber(pages_data[k].page_number) # {}
            /\ (\A j \in 1..Len(pages_data[k].text) : pages_data[k].text[j] \in Whitespace)
                   => UnitsOfPageNumber(pages_data[k].page_number) = {}

\* a file with a page of one paragraph and a page of nothing but whitespace
\* has been segmented: one unit, from the former
C2_Witness ==
    /\ Returned
    /\ Len(pages_data) = 2
    /\ pages_data[1].text = PageW
    /\ pages_data[2].text = PageC
    /\ Len(all_extracted_content) = 1
    /\ all_extracted_content[1].page_number = 2

\* unit x was segmented before unit y: page order, then paragraph order
SegmentedBefore(x, y) ==
    \/ x.page_number < y.page_number
    \/ x.page_number = y.page_number /\ x.paragraph_index < y.paragraph_index

\* C3: the ranked sections are in descending score order, and selected units
\* of equal score are in their segmentation order (page, then paragraph).
C3_RankedByScoreStable ==
    Returned =>
        LET secs == analysis_result.extracted_sections
        IN  /\ Len(secs) <= Len(scored_content)
            /\ \A i \in 1..Len(secs) :
                   /\ secs[i].page_number = scored_content[i].page_number
                   /\ secs[i].section_title =
                          get_section_title_from_text(scored_content[i].text_content,
                                                      DefaultMaxLength)
            /\ \A i, j \in 1..Len(secs) :
                   i < j =>
                       /\ ScoreLeq(scored_content[j].score, scored_content[i].score)
                       /\ ScoreEq(scored_content[i].score, scored_content[j].score)
                              => SegmentedBefore(scored_content[i], scored_content[j])

\* a ranking holds a tie across two pages, a tie within a page and a strictly
\* lower score behind them
C3_Witness ==
    /\ Returned
    /\ \E i, j, k, l \in 1..Len(analysis_result.extracted_sections) :
           /\ i < j /\ j < k /\ k < l
           /\ ScoreEq(scored_content[i].score, scored_content[j].score)
           /\ scored_content[i].page_number = scored_content[j].page_number
           /\ ScoreEq(scored_content[j].score, scored_content[k].score)
           /\ scored_content[j].page_number < scored_content[k].page_number
           /\ ScoreGt(scored_content[k].score, scored_content[l].score)
           /\ scored_content[l].page_number < scored_content[k].page_number

combined_keywords_of_run == get_keywords(persona) \cup get_keywords(job)

\* q: the content units of the file whose score is greater than 0
Qualifying ==
    {i \in 1..Len(all_extracted_content) :
        ScoreGt(calculate_relevance_score(all_extracted_content[i].text_content,
                                          combined_keywords_of_run),
                ZeroScore)}

\* C4: the ranked section list has exactly min(10, q) entries, q being the
\* number of content units scoring above 0; no unit of score 0 is ranked, so
\* both lists are empty when q = 0, as with an empty keyword set, and no error
\* is raised then.
C4_RanksMinTenQualifying ==
    /\ Returned =>
           LET secs == analysis_result.extracted_sections
               subs == analysis_result.sub_section_analysis
               q == Cardinality(Qualifying)
           IN  /\ Len(secs) = Min(10, q)
               /\ Len(subs) = Len(secs)
               /\ \A i \in 1..Len(secs) : ScoreGt(scored_content[i].score, ZeroScore)
               /\ \A i \in 1..Len(secs) :
                      \E u \in Qualifying :
                          /\ all_extracted_content[u].text_content = scored_content[i].text_content
                          /\ all_extracted_content[u].page_number = scored_content[i].page_number
               /\ combined_keywords_of_run = {} => secs = <<>> /\ subs = <<>>
    /\ (mode = "batch" /\ lexicon_ok) =>
           \A f \in FileNames : <<"Failed to process", f, "LookupError">> \notin Range(stderr)

\* more than ten units qualified, some did not, and ten were ranked
C4_Witness ==
    /\ Returned
    /\ Cardinality(Qualifying) > 10
    /\ Cardinality(Qualifying) < Len(all_extracted_content)
    /\ Len(analysis_result.extracted_sections) = 10

\* C10: with N units selected, the importance_rank values are exactly 1..N,
\* the rank being the 1-based position in the sorted selection, and the
\* excerpt list has N entries, the one at each position with the document and
\* page number of the section of that rank and the full text of that unit.
C10_RanksAndExcerptsAligned ==
    Returned =>
        LET secs == analysis_result.extracted_sections
            subs == analysis_result.sub_section_analysis
            N == Min(10, Len(scored_content))
        IN  /\ Len(secs) = N /\ Len(subs) = N
            /\ {secs[k].importance_rank : k \in 1..N} = 1..N
            /\ \A k \in 1..N :
                   /\ secs[k].importance_rank = k
                   /\ secs[k].document = pdf_files[idx]
                   /\ secs[k].page_number = scored_content[k].page_number
                   /\ subs[k].document = secs[k].document
                   /\ subs[k].page_number = secs[k].page_number
                   /\ subs[k].refined_text = scored_content[k].text_content

\* the second file of the batch got three or more sections from two pages
C10_Witness ==
    /\ Returned
    /\ idx = 2
    /\ Len(analysis_result.extracted_sections) >= 3
    /\ \E k \in 2..Len(analysis_result.extracted_sections) :
           analysis_result.extracted_sections[k].page_number
               # analysis_result.extracted_sections[1].page_number

-----------------------------------------------------------------------------
(* Properties of the batch loop (Spec, FairSpec) *)

\* the files announced by line 155, in the order of the announcements
Attempted ==
    LET started == SelectSeq(stdout, LAMBDA m : m[1] = "Processing")
    IN  [k \in 1..Len(started) |-> started[k][2]]

\* the files line 165 reported as failed
FailedFiles ==
    {f \in FileNames : \E e \in {"LookupError", "OSError"} :
        <<"Failed to process", f, e>> \in Range(stderr)}

\* the files line 30 reported as unreadable
UnreadableFiles == {f \in FileNames : <<"Error processing PDF", f>> \in Range(stderr)}

\* C7: a document that cannot be parsed at all is skipped: the core is not run
\* for it, no ResultSet is assembled and no output record is written for it;
\* the failure is reported and the batch goes on.
C7_UnreadableDocumentIsSkipped ==
    mode = "batch" =>
        \A f \in UnreadableFiles :
            /\ outputs[f] # "written"
            /\ <<"Successfully generated", f>> \notin Range(stdout)

\* C8: whatever files fail in processing or in persistence, the loop attempts
\* every discovered file exactly once, in order, writes an output record for
\* each file that did not fail, and, once started, reaches the end of the
\* batch.
C8_FailuresDoNotStopTheBatch ==
    /\ [](mode = "batch" =>
            /\ Len(Attempted) <= Len(pdf_files)
            /\ Attempted = SubSeq(pdf_files, 1, Len(Attempted)))
    /\ []((mode = "batch" /\ pc = "done") =>
            /\ Attempted = pdf_files
            /\ \A i \in 1..Len(pdf_files) :
                   pdf_files[i] \notin FailedFiles => outputs[pdf_files[i]] = "written")
    /\ [](pc = "loop" => <>(pc = "done"))

\* the batch ended after its first file failed and its second was written
C8_Witness ==
    /\ mode = "batch" /\ pc = "done"
    /\ Len(pdf_files) = 2
    /\ pdf_files[1] \in FailedFiles
    /\ outputs[pdf_files[1]] # "written"
    /\ outputs[pdf_files[2]] = "written"

\* C9: when the stop-word/tokenizer resource cannot be loaded the process
\* fails at startup, before any document is processed; the failure is not
\* caught and reported once per document while the loop runs to its end.
C9_MissingLexiconStopsBeforeAnyDocument ==
    (mode = "batch" /\ ~lexicon_ok) =>
        /\ Attempted = <<>>
        /\ FailedFiles = {}
        /\ pc # "done"

====
